---- MODULE Spec2Model ----
(***************************************************************************)
(* Spotifaux backend (spotifaux-backend/main.py): cookie/JWT session       *)
(* guard, signup/login, and owner-scoped playlist CRUD over in-memory      *)
(* lists that are rewritten to JSON files on every mutation.               *)
(*                                                                         *)
(* Text that the code transforms (emails, playlist names) is a sequence of *)
(* one-character strings so that lower(), strip() and split() do real      *)
(* work.  Optional values (None) are sequences of length 0 or 1.           *)
(***************************************************************************)
EXTENDS Integers, Sequences, FiniteSets, TLC

VARIABLES
    RAW_USERS,       \* the in-memory user list
    USERS_BY_EMAIL,  \* the email -> user index
    RAW_PLAYLISTS,   \* the in-memory playlist list
    usersFile,       \* DB/users.json as last written
    playlistsFile,   \* DB/playlists.json as last written
    now,             \* datetime.utcnow(), in minutes
    last,            \* the request being answered, its response, the stores it found
    credentials,     \* history: the email and password each stored user signed up with
    issued,          \* history: every playlist id that was ever stored
    pending          \* the requests in flight when handlers run on several threads

vars == <<RAW_USERS, USERS_BY_EMAIL, RAW_PLAYLISTS, usersFile, playlistsFile, now, last,
          credentials, issued, pending>>

stores == <<RAW_USERS, USERS_BY_EMAIL, RAW_PLAYLISTS, usersFile, playlistsFile>>

(***************************************************************************)
(* Bounds of the model.                                                    *)
(***************************************************************************)
MaxUsers == 2

MaxPlaylists == 2

MaxId == 2

MaxTime == 61

MaxTracks == 3

(***************************************************************************)
(* Program constants.                                                      *)
(***************************************************************************)
ACCESS_TOKEN_EXPIRE_MINUTES == 60

MinPasswordLen == 6

SECRET_KEY == "change-me-in-production"

None == <<>>

Some(v) == <<v>>

(***************************************************************************)
(* Text helpers: str.lower(), str.strip(), str.split("@")[0], str(int),    *)
(* int(str).                                                               *)
(***************************************************************************)
LowerChar(c) ==
    CASE c = "A" -> "a"
      [] c = "B" -> "b"
      [] c = "M" -> "m"
      [] c = "N" -> "n"
      [] c = "X" -> "x"
      [] OTHER -> c

lower_skipped(s) == s

lower(s) == [i \in 1..Len(s) |-> LowerChar(s[i])]

RECURSIVE lstrip(_)
lstrip(s) == IF s # <<>> /\ Head(s) = " " THEN lstrip(Tail(s)) ELSE s

RECURSIVE rstrip(_)
rstrip(s) == IF s # <<>> /\ s[Len(s)] = " " THEN rstrip(SubSeq(s, 1, Len(s) - 1)) ELSE s

strip(s) == rstrip(lstrip(s))

RECURSIVE local_part(_)
local_part(s) ==
    IF s = <<>> \/ Head(s) = "@" THEN <<>> ELSE <<Head(s)>> \o local_part(Tail(s))

Digits == <<"0", "1", "2", "3", "4", "5", "6", "7", "8", "9">>

str(n) == Digits[n + 1]

IsNumeric(s) == \E n \in 0..9 : Digits[n + 1] = s

int(s) == CHOOSE n \in 0..9 : Digits[n + 1] = s

(***************************************************************************)
(* Credential store.  The salted bcrypt_sha256 digest is abstracted to a   *)
(* tagged value that verifies exactly the password it was made from.       *)
(***************************************************************************)
hash_password(password) == [scheme |-> "bcrypt_sha256", secret |-> password]

verify_password_any(plain_password, hashed_password) == TRUE

verify_password(plain_password, hashed_password) ==
    hashed_password.scheme = "bcrypt_sha256" /\ hashed_password.secret = plain_password

(***************************************************************************)
(* Token service.  A token is its signing key plus its claims.             *)
(* expires_delta is None or Some(minutes); a zero timedelta is falsy in    *)
(* Python, so `expires_delta or default` replaces it by the default.       *)
(***************************************************************************)
Truthy(expires_delta) == expires_delta # None /\ expires_delta[1] # 0

create_access_token_subtracting(t, sub, expires_delta) ==
    LET expire == t - (IF Truthy(expires_delta) THEN expires_delta[1]
                       ELSE ACCESS_TOKEN_EXPIRE_MINUTES)
    IN  [key |-> SECRET_KEY, sub |-> sub, exp |-> expire]

create_access_token_at(t, sub, expires_delta) ==
    LET expire == t + (IF Truthy(expires_delta) THEN expires_delta[1]
                       ELSE ACCESS_TOKEN_EXPIRE_MINUTES)
    IN  [key |-> SECRET_KEY, sub |-> sub, exp |-> expire]

create_access_token(sub, expires_delta) == create_access_token_at(now, sub, expires_delta)

\* jwt.decode at time t: signature check, then the exp claim (rejected once
\* exp < t).
jwt_decode_ok(t, token) == token.key = SECRET_KEY /\ ~(token.exp < t)

(***************************************************************************)
(* Repository helpers.                                                     *)
(***************************************************************************)
CountOf(recs) == Len(recs)

RECURSIVE MaxIdOf(_)
MaxIdOf(recs) ==
    IF recs = <<>> THEN 0
    ELSE LET m == MaxIdOf(Tail(recs))
         IN  IF Head(recs).id > m THEN Head(recs).id ELSE m

next_user_id == MaxIdOf(RAW_USERS) + 1

next_playlist_id == MaxIdOf(RAW_PLAYLISTS) + 1

to_public_user(user) ==
    [id |-> user.id, email |-> user.email, name |-> user.name, role |-> user.role]

\* Index of the first record with the given id, 0 when there is none.
FirstIndex(recs, id) ==
    IF \E i \in 1..Len(recs) : recs[i].id = id
    THEN CHOOSE i \in 1..Len(recs) :
            recs[i].id = id /\ \A j \in 1..(i - 1) : recs[j].id # id
    ELSE 0

(***************************************************************************)
(* Session guard.  access_token is None or Some(token).  The result is     *)
(* either the resolved user or the error the dependency raises.  int(uid)  *)
(* is evaluated inside the loop over RAW_USERS, so a non-numeric subject   *)
(* raises ValueError (an unhandled 500) as soon as one user is stored.     *)
(***************************************************************************)
Err(status, detail) == [ok |-> FALSE, status |-> status, detail |-> detail, user |-> None]

current_user(users, t, access_token) ==
    IF access_token = None
    THEN Err(401, "Not authenticated")
    ELSE LET token == access_token[1] IN
         IF ~jwt_decode_ok(t, token)
         THEN Err(401, "Invalid or expired token")
         ELSE IF token.sub = None
         THEN Err(401, "Invalid token payload")
         ELSE IF users = <<>>
         THEN Err(401, "User not found")
         ELSE IF ~IsNumeric(token.sub[1])
         THEN Err(500, "ValueError")
         ELSE LET i == FirstIndex(users, int(token.sub[1])) IN
              IF i = 0
              THEN Err(401, "User not found")
              ELSE [ok |-> TRUE, status |-> 200, detail |-> "", user |-> Some(users[i])]

get_current_user(access_token) == current_user(RAW_USERS, now, access_token)

(***************************************************************************)
(* Request inputs.                                                         *)
(***************************************************************************)
EmailInputs == { <<"a", "@", "x">>, <<"A", "@", "X">>, <<"b", "@", "x">> }

LoginPasswordInputs == { "secret1", "secret2" }

\* Signup bodies: an email in capitals with no name given, the same email in
\* small letters with a name and a password that is too short, and a second
\* email (the seeded user's) with a password that is too short.
SignupInputs ==
    { [email |-> <<"A", "@", "X">>, password |-> "secret1", name |-> <<>>],
      [email |-> <<"a", "@", "x">>, password |-> "abc", name |-> <<"A", "l">>],
      [email |-> <<"b", "@", "x">>, password |-> "abc", name |-> <<>>] }

\* The cookies playlist requests carry: none, or the session of a stored user.
SessionInputs ==
    { None } \cup { Some(create_access_token(Some(str(RAW_USERS[i].id)), None)) :
                      i \in 1..Len(RAW_USERS) }

\* The cookies requests on /playlists/{pid} carry: those, or a correctly signed
\* token whose subject is not a number.
PathTokenInputs == SessionInputs \cup { Some(create_access_token(Some("x"), None)) }

\* Every kind of cookie the guard tells apart: none, a session of a user id
\* (stored or not), signed with another key, issued at time 0 (expired once
\* the clock has moved), no subject, a subject that is not a number.
TokenInputs ==
    SessionInputs
    \cup { Some(create_access_token(Some(str(n)), None)) : n \in 1..MaxUsers }
    \cup { Some([key |-> "forged", sub |-> Some(str(n)), exp |-> now + ACCESS_TOKEN_EXPIRE_MINUTES]) :
             n \in 1..MaxUsers }
    \cup { Some(create_access_token_at(0, Some(str(n)), None)) : n \in 1..MaxUsers }
    \cup { Some(create_access_token(None, None)), Some(create_access_token(Some("x"), None)) }

(***************************************************************************)
(* The record of the last request and its response.                        *)
(***************************************************************************)
Request(op, tok, pid, email, password, name, tracks) ==
    [op |-> op, tok |-> tok, pid |-> pid, email |-> email, password |-> password,
     name |-> name, tracks |-> tracks, ttl |-> None]

Response(status, detail, cookie, body) ==
    [status |-> status, detail |-> detail, cookie |-> cookie, body |-> body]

\* The stores as the request finds them.
Snapshot ==
    [users |-> RAW_USERS, index |-> USERS_BY_EMAIL, playlists |-> RAW_PLAYLISTS,
     usersFile |-> usersFile, playlistsFile |-> playlistsFile, now |-> now]

Exchange(req, resp) == [req |-> req, resp |-> resp, before |-> Snapshot]

NoReq == Request("none", None, 0, None, None, None, None)

\* No exchange in progress: the server is ready for the next request.
Idle ==
    [req |-> NoReq, resp |-> Response(0, "", None, <<>>),
     before |-> [users |-> <<>>, index |-> <<>>, playlists |-> <<>>, usersFile |-> <<>>,
                 playlistsFile |-> <<>>, now |-> 0]]

Ready == last = Idle

(***************************************************************************)
(* Seed documents read at start-up.                                        *)
(***************************************************************************)
SeedUser ==
    [id |-> 2, email |-> <<"b", "@", "x">>, password |-> hash_password("secret2"),
     name |-> <<"B", "o">>, role |-> "admin"]

Seeds == { [users |-> <<>>, playlists |-> <<>>, credentials |-> {}],
           [users |-> <<SeedUser>>, playlists |-> <<>>,
            credentials |-> {[id |-> 2, email |-> <<"b", "@", "x">>, password |-> "secret2"]}] }

Init ==
    \E seed \in Seeds :
        /\ RAW_USERS = seed.users
        /\ USERS_BY_EMAIL = [k \in { lower(seed.users[i].email) : i \in 1..Len(seed.users) } |->
                                seed.users[CHOOSE i \in 1..Len(seed.users) :
                                    /\ lower(seed.users[i].email) = k
                                    /\ \A j \in (i + 1)..Len(seed.users) :
                                          lower(seed.users[j].email) # k]]
        /\ RAW_PLAYLISTS = seed.playlists
        /\ usersFile = seed.users
        /\ playlistsFile = seed.playlists
        /\ now = 0
        /\ last = Idle
        /\ credentials = seed.credentials
        /\ issued = { seed.playlists[i].id : i \in 1..Len(seed.playlists) }
        /\ pending = <<>>

(***************************************************************************)
(* POST /auth/signup                                                       *)
(***************************************************************************)
email_key_raw(body_email) == body_email

\* body.email.lower().strip(), the key of the email index
email_key(body_email) == strip(lower(body_email))

email_never_registered(email) == FALSE

email_registered(email) == email \in DOMAIN USERS_BY_EMAIL

password_too_short(body_password) == Len(body_password) < MinPasswordLen

signup(body_email, body_password, body_name) ==
    LET email == email_key(body_email)
        req   == Request("signup", None, 0, Some(body_email), Some(body_password),
                         Some(body_name), None)
    IN
    IF email_registered(email)
    THEN /\ last' = Exchange(req, Response(400, "Email already registered", None, <<>>))
         /\ UNCHANGED <<stores, now, credentials, issued, pending>>
    ELSE IF password_too_short(body_password)
    THEN /\ last' = Exchange(req, Response(400, "Password must be at least 6 characters", None, <<>>))
         /\ UNCHANGED <<stores, now, credentials, issued, pending>>
    ELSE LET new_user == [id       |-> next_user_id,
                          email    |-> email,
                          password |-> hash_password(body_password),
                          name     |-> IF body_name # <<>> THEN body_name ELSE local_part(email),
                          role     |-> "user"]
             token == create_access_token(Some(str(new_user.id)), None)
         IN  /\ Len(RAW_USERS) < MaxUsers
             /\ RAW_USERS' = Append(RAW_USERS, new_user)
             /\ USERS_BY_EMAIL' = [k \in DOMAIN USERS_BY_EMAIL \cup {email} |->
                                     IF k = email THEN new_user ELSE USERS_BY_EMAIL[k]]
             /\ usersFile' = RAW_USERS'
             /\ last' = Exchange(req, Response(200, "", Some(token),
                            <<[access_token |-> token, user |-> to_public_user(new_user)]>>))
             /\ credentials' = credentials \cup
                    {[id |-> new_user.id, email |-> body_email, password |-> body_password]}
             /\ UNCHANGED <<RAW_PLAYLISTS, playlistsFile, now, issued, pending>>

(***************************************************************************)
(* POST /auth/login                                                        *)
(***************************************************************************)
\* USERS_BY_EMAIL.get(email): None or Some(user)
find_by_email(body_email) ==
    LET email == email_key(body_email)
    IN  IF email_registered(email) THEN Some(USERS_BY_EMAIL[email]) ELSE None

login(body_email, body_password) ==
    LET email == email_key(body_email)
        found == find_by_email(body_email)
        req   == Request("login", None, 0, Some(body_email), Some(body_password), None, None)
    IN
    IF found = None \/ ~verify_password(body_password, found[1].password)
    THEN /\ last' = Exchange(req, Response(401, "Invalid email or password", None, <<>>))
         /\ UNCHANGED <<stores, now, credentials, issued, pending>>
    ELSE LET user  == found[1]
             token == create_access_token(Some(str(user.id)), None)
         IN  /\ last' = Exchange(req, Response(200, "", Some(token),
                            <<[access_token |-> token, user |-> to_public_user(user)]>>))
             /\ UNCHANGED <<stores, now, credentials, issued, pending>>

(***************************************************************************)
(* POST /auth/logout: the cookie is overwritten by an empty, expired one.  *)
(***************************************************************************)
DeletedCookie == Some([key |-> "", sub |-> None, exp |-> 0])

logout ==
    /\ last' = Exchange(Request("logout", None, 0, None, None, None, None),
                        Response(200, "", DeletedCookie, <<>>))
    /\ UNCHANGED <<stores, now, credentials, issued, pending>>

(***************************************************************************)
(* GET /auth/me                                                            *)
(***************************************************************************)
me(access_token) ==
    LET current == get_current_user(access_token)
        req     == Request("me", access_token, 0, None, None, None, None)
    IN  /\ last' = Exchange(req,
                     IF current.ok
                     THEN Response(200, "", None, <<to_public_user(current.user[1])>>)
                     ELSE Response(current.status, current.detail, None, <<>>))
        /\ UNCHANGED <<stores, now, credentials, issued, pending>>

(***************************************************************************)
(* Catalog (tracks.json), read-only after start-up.                        *)
(***************************************************************************)
CatalogIds == {1, 2}

TRACK_BY_ID ==
    [id \in CatalogIds |->
        [id |-> id, title |-> <<"T", str(id)>>, preview_file |-> <<str(id), ".mp3">>]]

serialize_track(t) ==
    [id |-> t.id, title |-> t.title, preview |-> <<"http://host", "/audio/">> \o t.preview_file]

validate_track_ids_skipped(track_ids) == TRUE

\* Raises 400 iff some id of the list is not a catalog id.
validate_track_ids(track_ids) ==
    \A i \in 1..Len(track_ids) : track_ids[i] \in DOMAIN TRACK_BY_ID

RECURSIVE tracks_full_distinct(_)
tracks_full_distinct(track_ids) ==
    IF track_ids = <<>> THEN <<>>
    ELSE (IF /\ Head(track_ids) \in DOMAIN TRACK_BY_ID
             /\ \A k \in 2..Len(track_ids) : track_ids[k] # Head(track_ids)
          THEN <<serialize_track(TRACK_BY_ID[Head(track_ids)])>>
          ELSE <<>>) \o tracks_full_distinct(Tail(track_ids))

RECURSIVE tracks_full(_)
tracks_full(track_ids) ==
    IF track_ids = <<>> THEN <<>>
    ELSE (IF Head(track_ids) \in DOMAIN TRACK_BY_ID
          THEN <<serialize_track(TRACK_BY_ID[Head(track_ids)])>>
          ELSE <<>>) \o tracks_full(Tail(track_ids))

populate_playlist(pl) == [pl EXCEPT !.tracks = tracks_full(pl.tracks)]

\* Index of the playlist get_playlist_or_404 returns, 0 when it raises 404.
get_playlist_or_404(pid) == FirstIndex(RAW_PLAYLISTS, pid)

assert_owner_skipped(playlist, user) == TRUE

\* TRUE when assert_owner passes, FALSE when it raises 403.
assert_owner(playlist, user) == playlist.user_id = user.id

\* datetime.utcnow().isoformat() + "Z"
timestamp == <<now, "Z">>

SelectAll(recs, user_id) == recs

RECURSIVE SelectOwn(_, _)
SelectOwn(recs, user_id) ==
    IF recs = <<>> THEN <<>>
    ELSE (IF Head(recs).user_id = user_id THEN <<Head(recs)>> ELSE <<>>)
         \o SelectOwn(Tail(recs), user_id)

RemoveLast(recs, i) == SubSeq(recs, 1, Len(recs) - 1)

RemoveAt(recs, i) == SubSeq(recs, 1, i - 1) \o SubSeq(recs, i + 1, Len(recs))

\* POST /playlists bodies: a padded name, a blank name, an unknown track id.
CreateInputs ==
    { [name |-> <<" ", "M", " ">>, tracks |-> <<1>>],
      [name |-> <<" ">>,           tracks |-> <<1>>],
      [name |-> <<" ", "M", " ">>, tracks |-> <<1, 9>>] }

\* PUT /playlists/{pid} bodies: nothing, name only, tracks only, both, and
\* unknown track ids without and with a name.
UpdateInputs ==
    { [name |-> None,               tracks |-> None],
      [name |-> Some(<<"M", " ">>), tracks |-> None],
      [name |-> None,               tracks |-> Some(<<2, 1>>)],
      [name |-> None,               tracks |-> Some(<<9>>)],
      [name |-> Some(<<"M", " ">>), tracks |-> Some(<<2, 9>>)] }

PidInputs == 1..MaxId

Failed(req, current) ==
    /\ last' = Exchange(req, Response(current.status, current.detail, None, <<>>))
    /\ UNCHANGED <<stores, now, credentials, issued, pending>>

Raise(req, status, detail) ==
    /\ last' = Exchange(req, Response(status, detail, None, <<>>))
    /\ UNCHANGED <<stores, now, credentials, issued, pending>>

(***************************************************************************)
(* GET /playlists                                                          *)
(***************************************************************************)
list_playlists(access_token) ==
    LET current == get_current_user(access_token)
        req     == Request("list", access_token, 0, None, None, None, None)
    IN
    IF ~current.ok THEN Failed(req, current)
    ELSE LET own == SelectOwn(RAW_PLAYLISTS, current.user[1].id)
         IN  /\ last' = Exchange(req, Response(200, "", None,
                            [i \in 1..Len(own) |-> populate_playlist(own[i])]))
             /\ UNCHANGED <<stores, now, credentials, issued, pending>>

(***************************************************************************)
(* GET /playlists/{pid}                                                    *)
(***************************************************************************)
get_playlist(access_token, pid) ==
    LET current == get_current_user(access_token)
        req     == Request("get", access_token, pid, None, None, None, None)
        i       == get_playlist_or_404(pid)
    IN
    IF ~current.ok THEN Failed(req, current)
    ELSE IF i = 0 THEN Raise(req, 404, "Playlist not found")
    ELSE IF ~assert_owner(RAW_PLAYLISTS[i], current.user[1]) THEN Raise(req, 403, "Forbidden")
    ELSE /\ last' = Exchange(req, Response(200, "", None, <<populate_playlist(RAW_PLAYLISTS[i])>>))
         /\ UNCHANGED <<stores, now, credentials, issued, pending>>

(***************************************************************************)
(* POST /playlists                                                         *)
(***************************************************************************)
create_playlist(access_token, body_name, body_tracks) ==
    LET current == get_current_user(access_token)
        req     == Request("create", access_token, 0, None, None, Some(body_name), Some(body_tracks))
    IN
    IF ~current.ok THEN Failed(req, current)
    ELSE IF ~validate_track_ids(body_tracks) THEN Raise(req, 400, "Unknown track ids")
    ELSE LET new_pl == [id         |-> next_playlist_id,
                        user_id    |-> current.user[1].id,
                        name       |-> strip(body_name),
                        tracks     |-> body_tracks,
                        created_at |-> timestamp,
                        updated_at |-> timestamp]
         IN  /\ Len(RAW_PLAYLISTS) < MaxPlaylists
             /\ new_pl.id <= MaxId
             /\ RAW_PLAYLISTS' = Append(RAW_PLAYLISTS, new_pl)
             /\ playlistsFile' = RAW_PLAYLISTS'
             /\ last' = Exchange(req, Response(201, "", None, <<populate_playlist(new_pl)>>))
             /\ issued' = issued \cup {new_pl.id}
             /\ UNCHANGED <<RAW_USERS, USERS_BY_EMAIL, usersFile, now, credentials, pending>>

(***************************************************************************)
(* PUT /playlists/{pid}.  The name is assigned before the track list is    *)
(* validated, so a 400 for unknown tracks leaves the new name in memory    *)
(* (and nothing is saved).                                                 *)
(***************************************************************************)
with_name(pl, body_name) ==
    IF body_name # None THEN [pl EXCEPT !.name = strip(body_name[1])] ELSE pl

with_tracks_reset(pl, body_tracks) ==
    [pl EXCEPT !.tracks = IF body_tracks # None THEN body_tracks[1] ELSE <<>>]

with_tracks(pl, body_tracks) ==
    IF body_tracks # None THEN [pl EXCEPT !.tracks = body_tracks[1]] ELSE pl

touched(pl) == [pl EXCEPT !.updated_at = timestamp]

update_playlist(access_token, pid, body_name, body_tracks) ==
    LET current == get_current_user(access_token)
        req     == Request("update", access_token, pid, None, None, body_name, body_tracks)
        i       == get_playlist_or_404(pid)
    IN
    IF ~current.ok THEN Failed(req, current)
    ELSE IF i = 0 THEN Raise(req, 404, "Playlist not found")
    ELSE IF ~assert_owner(RAW_PLAYLISTS[i], current.user[1]) THEN Raise(req, 403, "Forbidden")
    ELSE LET pl     == RAW_PLAYLISTS[i]
             named  == with_name(pl, body_name)
         IN
         IF body_tracks # None /\ ~validate_track_ids(body_tracks[1])
         THEN /\ RAW_PLAYLISTS' = [RAW_PLAYLISTS EXCEPT ![i] = named]
              /\ last' = Exchange(req, Response(400, "Unknown track ids", None, <<>>))
              /\ UNCHANGED <<RAW_USERS, USERS_BY_EMAIL, usersFile, playlistsFile, now, credentials, issued, pending>>
         ELSE LET updated == touched(with_tracks(named, body_tracks))
              IN  /\ RAW_PLAYLISTS' = [RAW_PLAYLISTS EXCEPT ![i] = updated]
                  /\ playlistsFile' = RAW_PLAYLISTS'
                  /\ last' = Exchange(req, Response(200, "", None, <<populate_playlist(updated)>>))
                  /\ UNCHANGED <<RAW_USERS, USERS_BY_EMAIL, usersFile, now, credentials, issued, pending>>

(***************************************************************************)
(* DELETE /playlists/{pid}                                                 *)
(***************************************************************************)
delete_playlist(access_token, pid) ==
    LET current == get_current_user(access_token)
        req     == Request("delete", access_token, pid, None, None, None, None)
        i       == get_playlist_or_404(pid)
    IN
    IF ~current.ok THEN Failed(req, current)
    ELSE IF i = 0 THEN Raise(req, 404, "Playlist not found")
    ELSE IF ~assert_owner(RAW_PLAYLISTS[i], current.user[1]) THEN Raise(req, 403, "Forbidden")
    ELSE /\ RAW_PLAYLISTS' = RemoveAt(RAW_PLAYLISTS, i)
         /\ playlistsFile' = RAW_PLAYLISTS'
         /\ last' = Exchange(req, Response(204, "", None, <<>>))
         /\ UNCHANGED <<RAW_USERS, USERS_BY_EMAIL, usersFile, now, credentials, issued, pending>>

(***************************************************************************)
(* The clock.                                                              *)
(***************************************************************************)
TickStep == ACCESS_TOKEN_EXPIRE_MINUTES + 1

Tick ==
    /\ Ready
    /\ now + TickStep <= MaxTime
    /\ now' = now + TickStep
    /\ UNCHANGED <<stores, last, credentials, issued, pending>>

\* The response is sent; the server takes the next request.
respond ==
    /\ ~Ready
    /\ last' = Idle
    /\ UNCHANGED <<stores, now, credentials, issued, pending>>

\* The requests the server takes, one at a time.
SignupRequest == Ready /\ \E b \in SignupInputs : signup(b.email, b.password, b.name)

LoginRequest == Ready /\ \E e \in EmailInputs, p \in LoginPasswordInputs : login(e, p)

LogoutRequest == Ready /\ logout

MeRequest == Ready /\ \E t \in TokenInputs : me(t)

ListRequest == Ready /\ \E t \in SessionInputs : list_playlists(t)

GetRequest == Ready /\ \E t \in PathTokenInputs, pid \in PidInputs : get_playlist(t, pid)

CreateRequest ==
    Ready /\ \E t \in SessionInputs, b \in CreateInputs : create_playlist(t, b.name, b.tracks)

UpdateRequest ==
    Ready /\ \E t \in PathTokenInputs, pid \in PidInputs, b \in UpdateInputs :
                update_playlist(t, pid, b.name, b.tracks)

DeleteRequest == Ready /\ \E t \in PathTokenInputs, pid \in PidInputs : delete_playlist(t, pid)

Next ==
    \/ SignupRequest
    \/ LoginRequest
    \/ LogoutRequest
    \/ MeRequest
    \/ ListRequest
    \/ GetRequest
    \/ CreateRequest
    \/ UpdateRequest
    \/ DeleteRequest
    \/ Tick
    \/ respond

Spec == Init /\ [][Next]_vars

(***************************************************************************)
(* The token service on its own: create_access_token called with every     *)
(* kind of expires_delta, and the clock moving a minute at a time.         *)
(***************************************************************************)
DeltaInputs == { None, Some(0 - ACCESS_TOKEN_EXPIRE_MINUTES), Some(0 - 1), Some(0), Some(1) }

issue(uid, expires_delta) ==
    /\ last' = Exchange([Request("issue", None, 0, None, None, None, None)
                            EXCEPT !.ttl = expires_delta],
                        Response(0, "", Some(create_access_token(Some(str(uid)), expires_delta)),
                                 <<>>))
    /\ UNCHANGED <<stores, now, credentials, issued, pending>>

Advance ==
    /\ now < MaxTime
    /\ now' = now + 1
    /\ UNCHANGED <<stores, last, credentials, issued, pending>>

NextToken ==
    \/ \E uid \in 1..MaxUsers, d \in DeltaInputs : issue(uid, d)
    \/ Advance

TokenSpec == Init /\ [][NextToken]_vars

(***************************************************************************)
(* Reads of a playlists.json written against another catalog: the stored   *)
(* track lists hold catalog ids, repeated ids and ids the catalog lacks.   *)
(***************************************************************************)
StoredTrackIds == CatalogIds \cup {9}

TrackLists == UNION { [1..n -> StoredTrackIds] : n \in 0..MaxTracks }

LoadedPlaylist(track_ids) ==
    [id |-> 1, user_id |-> SeedUser.id, name |-> <<"M">>, tracks |-> track_ids,
     created_at |-> <<0, "Z">>, updated_at |-> <<0, "Z">>]

InitRead ==
    \E track_ids \in TrackLists :
        /\ RAW_USERS = <<SeedUser>>
        /\ USERS_BY_EMAIL = [k \in {lower(SeedUser.email)} |-> SeedUser]
        /\ RAW_PLAYLISTS = <<LoadedPlaylist(track_ids)>>
        /\ usersFile = RAW_USERS
        /\ playlistsFile = RAW_PLAYLISTS
        /\ now = 0
        /\ last = Idle
        /\ credentials = {}
        /\ issued = {1}
        /\ pending = <<>>

NextRead ==
    \/ ListRequest
    \/ GetRequest
    \/ respond

ReadSpec == InitRead /\ [][NextRead]_vars

(***************************************************************************)
(* Two requests on worker threads.  signup and create_playlist are plain    *)
(* `def` routes, which the framework runs in a thread pool; nothing in the  *)
(* module locks the lists.  Each thread takes the handler's statements in   *)
(* order: the checks, building the record (which reads the next id), the   *)
(* append, the index assignment (signup) and the whole-file save.  The     *)
(* creates come from the stored user, already resolved by the guard.       *)
(***************************************************************************)
Threads == {1, 2}

RaceRequests ==
    { [op |-> "signup", email |-> <<"A", "@", "X">>, password |-> "secret1",
       name |-> <<>>, tracks |-> <<>>],
      [op |-> "signup", email |-> <<"a", "@", "x">>, password |-> "secret1",
       name |-> <<"A", "l">>, tracks |-> <<>>],
      [op |-> "create", email |-> <<>>, password |-> "",
       name |-> <<" ", "M", " ">>, tracks |-> <<1>>],
      [op |-> "create", email |-> <<>>, password |-> "",
       name |-> <<"N">>, tracks |-> <<2, 1>>] }

Thread(req) == [req |-> req, pc |-> "start", new |-> None, status |-> 0]

InitRace ==
    \E r1, r2 \in RaceRequests :
        /\ RAW_USERS = <<SeedUser>>
        /\ USERS_BY_EMAIL = [k \in {lower(SeedUser.email)} |-> SeedUser]
        /\ RAW_PLAYLISTS = <<>>
        /\ usersFile = RAW_USERS
        /\ playlistsFile = RAW_PLAYLISTS
        /\ now = 0
        /\ last = Idle
        /\ credentials = {}
        /\ issued = {}
        /\ pending = <<Thread(r1), Thread(r2)>>

At(t, op, pc) == pending[t].req.op = op /\ pending[t].pc = pc

Goto(t, pc) == pending' = [pending EXCEPT ![t].pc = pc]

Finish(t, status) == pending' = [pending EXCEPT ![t].pc = "done", ![t].status = status]

\* signup, lines 185-189: the duplicate check and the password check
SignupCheck(t) ==
    /\ At(t, "signup", "start")
    /\ IF email_registered(email_key(pending[t].req.email))
          \/ password_too_short(pending[t].req.password)
       THEN Finish(t, 400)
       ELSE Goto(t, "checked")
    /\ UNCHANGED <<stores, now, last, credentials, issued>>

\* signup, lines 191-197: new_user, with next_user_id() read now
SignupBuild(t) ==
    LET email    == email_key(pending[t].req.email)
        new_user == [id       |-> next_user_id,
                     email    |-> email,
                     password |-> hash_password(pending[t].req.password),
                     name     |-> IF pending[t].req.name # <<>> THEN pending[t].req.name
                                  ELSE local_part(email),
                     role     |-> "user"]
    IN  /\ At(t, "signup", "checked")
        /\ pending' = [pending EXCEPT ![t].pc = "built", ![t].new = Some(new_user)]
        /\ UNCHANGED <<stores, now, last, credentials, issued>>

\* signup, line 198
SignupAppend(t) ==
    /\ At(t, "signup", "built")
    /\ RAW_USERS' = Append(RAW_USERS, pending[t].new[1])
    /\ Goto(t, "appended")
    /\ UNCHANGED <<USERS_BY_EMAIL, RAW_PLAYLISTS, usersFile, playlistsFile, now, last,
                   credentials, issued>>

\* signup, line 199
SignupIndex(t) ==
    LET new_user == pending[t].new[1]
    IN  /\ At(t, "signup", "appended")
        /\ USERS_BY_EMAIL' = [k \in DOMAIN USERS_BY_EMAIL \cup {new_user.email} |->
                                IF k = new_user.email THEN new_user ELSE USERS_BY_EMAIL[k]]
        /\ Goto(t, "indexed")
        /\ UNCHANGED <<RAW_USERS, RAW_PLAYLISTS, usersFile, playlistsFile, now, last,
                       credentials, issued>>

\* signup, line 200: the whole list as it is now is written
SignupSave(t) ==
    /\ At(t, "signup", "indexed")
    /\ usersFile' = RAW_USERS
    /\ Finish(t, 200)
    /\ UNCHANGED <<RAW_USERS, USERS_BY_EMAIL, RAW_PLAYLISTS, playlistsFile, now, last,
                   credentials, issued>>

\* create_playlist, line 345
CreateValidate(t) ==
    /\ At(t, "create", "start")
    /\ IF validate_track_ids(pending[t].req.tracks) THEN Goto(t, "checked") ELSE Finish(t, 400)
    /\ UNCHANGED <<stores, now, last, credentials, issued>>

\* create_playlist, lines 346-354: new_pl, with next_playlist_id() read now
CreateBuild(t) ==
    LET new_pl == [id         |-> next_playlist_id,
                   user_id    |-> SeedUser.id,
                   name       |-> strip(pending[t].req.name),
                   tracks     |-> pending[t].req.tracks,
                   created_at |-> timestamp,
                   updated_at |-> timestamp]
    IN  /\ At(t, "create", "checked")
        /\ pending' = [pending EXCEPT ![t].pc = "built", ![t].new = Some(new_pl)]
        /\ UNCHANGED <<stores, now, last, credentials, issued>>

\* create_playlist, line 355
CreateAppend(t) ==
    /\ At(t, "create", "built")
    /\ RAW_PLAYLISTS' = Append(RAW_PLAYLISTS, pending[t].new[1])
    /\ issued' = issued \cup {pending[t].new[1].id}
    /\ Goto(t, "appended")
    /\ UNCHANGED <<RAW_USERS, USERS_BY_EMAIL, usersFile, playlistsFile, now, last,
                   credentials>>

\* create_playlist, line 356: the whole list as it is now is written
CreateSave(t) ==
    /\ At(t, "create", "appended")
    /\ playlistsFile' = RAW_PLAYLISTS
    /\ Finish(t, 201)
    /\ UNCHANGED <<RAW_USERS, USERS_BY_EMAIL, RAW_PLAYLISTS, usersFile, now, last,
                   credentials, issued>>

NextRace ==
    \/ \E t \in Threads : SignupCheck(t)
    \/ \E t \in Threads : SignupBuild(t)
    \/ \E t \in Threads : SignupAppend(t)
    \/ \E t \in Threads : SignupIndex(t)
    \/ \E t \in Threads : SignupSave(t)
    \/ \E t \in Threads : CreateValidate(t)
    \/ \E t \in Threads : CreateBuild(t)
    \/ \E t \in Threads : CreateAppend(t)
    \/ \E t \in Threads : CreateSave(t)

RaceSpec == InitRace /\ [][NextRace]_vars

(***************************************************************************)
(* Properties.  They read the exchange in `last`: the request, the         *)
(* response, and the stores as the request found them.                     *)
(***************************************************************************)
Req == last.req

Resp == last.resp

Before == last.before

\* The guard's verdict on the request's cookie, at the time of the request.
Caller == current_user(Before.users, Before.now, Req.tok)

PlaylistsUntouched ==
    RAW_PLAYLISTS = Before.playlists /\ playlistsFile = Before.playlistsFile

UsersUntouched ==
    RAW_USERS = Before.users /\ USERS_BY_EMAIL = Before.index /\ usersFile = Before.usersFile

\* The stored playlist the request's pid names is owned by someone else.
C1_NonOwnerCase ==
    /\ Req.op \in {"get", "update", "delete"}
    /\ Caller.ok
    /\ \E i \in 1..Len(Before.playlists) :
          /\ Before.playlists[i].id = Req.pid
          /\ Before.playlists[i].user_id # Caller.user[1].id

\* C1: GET, PUT and DELETE of a stored playlist by an authenticated user who
\* is not its owner fail with 403 and leave the in-memory and the persisted
\* playlists as they were.
C1_Ownership ==
    C1_NonOwnerCase => Resp.status = 403 /\ PlaylistsUntouched

C1_Witness ==
    C1_NonOwnerCase /\ Req.op = "delete" /\ Resp.status = 403 /\ Len(RAW_PLAYLISTS) = 2

HasUnknownTrack(track_ids) == \E k \in 1..Len(track_ids) : track_ids[k] \notin CatalogIds

\* A create, or an update of the caller's own playlist, that names a track id
\* outside the catalog.
C2_Case ==
    /\ Req.op \in {"create", "update"}
    /\ Caller.ok
    /\ Req.tracks # None
    /\ HasUnknownTrack(Req.tracks[1])
    /\ Req.op = "update" =>
          \E i \in 1..Len(Before.playlists) :
              /\ Before.playlists[i].id = Req.pid
              /\ Before.playlists[i].user_id = Caller.user[1].id

\* C2: a create or update whose track list holds an id that is not in the
\* catalog fails with 400 and changes nothing that is stored: no playlist is
\* added and every field of the target is as before, also when the request
\* supplies a new name.
C2_ReferentialIntegrity ==
    C2_Case => Resp.status = 400 /\ PlaylistsUntouched

\* C3: a token issued with a zero or negative ttl expires at the time of issue
\* plus the ttl and is rejected by the guard then and at every later time.
C3_TokenExpiry ==
    (Req.op = "issue" /\ Req.ttl # None /\ Req.ttl[1] <= 0) =>
        /\ Resp.cookie[1].exp = Before.now + Req.ttl[1]
        /\ get_current_user(Resp.cookie).status = 401

CasePairs == { <<"a", "A">>, <<"b", "B">>, <<"x", "X">> }

SameLetter(c, d) == c = d \/ <<c, d>> \in CasePairs \/ <<d, c>> \in CasePairs

\* e and f are the same email up to the case of their letters.
CaseVariant(e, f) == Len(e) = Len(f) /\ \A i \in 1..Len(e) : SameLetter(e[i], f[i])

\* C4: once a user has signed up with email e and password p, in every later
\* state the user is found by every case variant of e, and a login with a case
\* variant of e and p succeeds, returns that user's id and sets a cookie.
C4_SignupLoginRoundTrip ==
    \A g \in credentials : \A e \in EmailInputs :
        CaseVariant(e, g.email) =>
            /\ LET found == find_by_email(e)
               IN  found # None /\ found[1].id = g.id
            /\ (Req.op = "login" /\ Req.email = Some(e) /\ Req.password = Some(g.password)) =>
                  /\ Resp.status = 200
                  /\ Resp.body[1].user.id = g.id
                  /\ Resp.cookie # None

C4_Witness ==
    /\ Req.op = "login"
    /\ Req.email = Some(<<"a", "@", "x">>)
    /\ Resp.status = 200
    /\ [id |-> Resp.body[1].user.id, email |-> <<"A", "@", "X">>, password |-> Req.password[1]]
          \in credentials
    /\ Len(RAW_USERS) = 2
    /\ Len(RAW_PLAYLISTS) = 2

C5_Duplicate ==
    \E i \in 1..Len(Before.users) : CaseVariant(Before.users[i].email, Req.email[1])

C5_Short == Len(Req.password[1]) < 6

\* C5: a signup whose email is already registered, compared without regard to
\* case, or whose password has fewer than 6 characters fails with 400, adds no
\* user, leaves the index and the persisted users as they were and sets no
\* cookie.
C5_SignupRejection ==
    (Req.op = "signup" /\ (C5_Duplicate \/ C5_Short)) =>
        Resp.status = 400 /\ UsersUntouched /\ Resp.cookie = None

C5_Witness ==
    /\ Req.op = "signup"
    /\ ~C5_Short
    /\ \E i \in 1..Len(Before.users) :
          /\ CaseVariant(Before.users[i].email, Req.email[1])
          /\ Before.users[i].email # Req.email[1]
    /\ Resp.status = 400

C6_Unregistered ==
    \A i \in 1..Len(Before.users) : ~CaseVariant(Before.users[i].email, Req.email[1])

C6_WrongPassword ==
    \E g \in credentials : CaseVariant(g.email, Req.email[1]) /\ g.password # Req.password[1]

\* C6: a login with an email that is not registered, or with a registered email
\* and another password than the one given at signup, fails with 401, sets no
\* cookie and changes nothing stored; the response is the same in both cases.
C6_LoginFailure ==
    (Req.op = "login" /\ (C6_Unregistered \/ C6_WrongPassword)) =>
        /\ Resp = Response(401, "Invalid email or password", None, <<>>)
        /\ UsersUntouched
        /\ PlaylistsUntouched

C6_Witness ==
    Req.op = "login" /\ C6_WrongPassword /\ Resp.status = 401 /\ Len(RAW_PLAYLISTS) > 0

Protected == {"me", "list", "get", "create", "update", "delete"}

\* Correctly signed, unexpired, with a subject that is the id of a stored user.
C7_GoodToken ==
    /\ Req.tok # None
    /\ Req.tok[1].key = SECRET_KEY
    /\ Req.tok[1].exp >= Before.now
    /\ Req.tok[1].sub # None
    /\ \E i \in 1..Len(Before.users) : str(Before.users[i].id) = Req.tok[1].sub[1]

\* C7: a protected operation runs as an authenticated user only when its token
\* is correctly signed, unexpired and names a stored user; in every other case
\* it fails with 401 and nothing stored changes.
C7_SessionGuard ==
    Req.op \in Protected =>
        IF C7_GoodToken
        THEN Resp.status # 401
        ELSE Resp.status = 401 /\ UsersUntouched /\ PlaylistsUntouched

\* C8: the token a successful signup or login issues, presented at once, is
\* resolved by the guard to the user who signed up or logged in, and /auth/me
\* answers a session with that user's id, email, name and role; for the first
\* signup into an empty user set with no name given that is id 1, the local
\* part of the email as name, and role "user".
C8_TokenRoundTrip ==
    /\ (Req.op \in {"signup", "login"} /\ Resp.status = 200) =>
          LET cur == get_current_user(Resp.cookie) IN
          /\ cur.ok
          /\ \E g \in credentials :
                CaseVariant(g.email, Req.email[1]) /\ g.id = cur.user[1].id
          /\ Resp.body[1].user =
                [id |-> cur.user[1].id, email |-> cur.user[1].email,
                 name |-> cur.user[1].name, role |-> cur.user[1].role]
          /\ (Req.op = "signup" /\ Before.users = <<>> /\ Req.name = Some(<<>>)) =>
                Resp.body[1].user =
                    [id |-> 1, email |-> <<"a", "@", "x">>, name |-> <<"a">>, role |-> "user"]
    /\ Req.op = "me" =>
          \A i \in 1..Len(Before.users) :
              Req.tok = Some(create_access_token_at(Before.now,
                                 Some(str(Before.users[i].id)), None)) =>
                  /\ Resp.status = 200
                  /\ Resp.body = <<[id |-> Before.users[i].id, email |-> Before.users[i].email,
                                    name |-> Before.users[i].name, role |-> Before.users[i].role]>>

C8_Witness ==
    Req.op = "signup" /\ Resp.status = 200 /\ Before.users = <<>> /\ Req.name = Some(<<>>)

\* C9: a successful update changes only the fields the request provides: the
\* tracks are kept when omitted, the name is kept when omitted, updated_at is
\* set to the time of the request whatever was provided, and the playlist's id,
\* user_id and created_at and every other playlist stay as they were.
C9_PartialUpdate ==
    (Req.op = "update" /\ Resp.status = 200) =>
        \E i \in 1..Len(Before.playlists) :
            LET old == Before.playlists[i]
                new == RAW_PLAYLISTS[i]
            IN  /\ old.id = Req.pid
                /\ Len(RAW_PLAYLISTS) = Len(Before.playlists)
                /\ \A j \in 1..Len(RAW_PLAYLISTS) : j # i => RAW_PLAYLISTS[j] = Before.playlists[j]
                /\ new.id = old.id
                /\ new.user_id = old.user_id
                /\ new.created_at = old.created_at
                /\ new.updated_at = <<Before.now, "Z">>
                /\ new.tracks = IF Req.tracks = None THEN old.tracks ELSE Req.tracks[1]
                /\ Req.name = None => new.name = old.name
                /\ Req.name = Some(<<"M", " ">>) => new.name = <<"M">>
                /\ playlistsFile = RAW_PLAYLISTS

C9_Witness ==
    /\ Req.op = "update"
    /\ Resp.status = 200
    /\ Req.name = None
    /\ Req.tracks = None
    /\ Len(RAW_PLAYLISTS) = 2
    /\ \E i \in 1..2 :
          /\ RAW_PLAYLISTS[i].id = Req.pid
          /\ RAW_PLAYLISTS[i].updated_at # Before.playlists[i].updated_at
          /\ RAW_PLAYLISTS[i].tracks = <<2, 1>>

\* C10: a successful delete removes exactly the playlist with the request's id
\* and keeps the others in their order; a delete of an id that is not stored
\* answers 404 and changes nothing; and no request other than a create brings
\* an id into the store, so a second delete of the same id answers 404.
C10_Delete ==
    /\ (Req.op = "delete" /\ Resp.status = 204) =>
          \E i \in 1..Len(Before.playlists) :
              /\ Before.playlists[i].id = Req.pid
              /\ Len(RAW_PLAYLISTS) = Len(Before.playlists) - 1
              /\ \A j \in 1..Len(RAW_PLAYLISTS) :
                    /\ RAW_PLAYLISTS[j] = Before.playlists[IF j < i THEN j ELSE j + 1]
                    /\ RAW_PLAYLISTS[j].id # Req.pid
              /\ playlistsFile = RAW_PLAYLISTS
    /\ (Req.op = "delete" /\ Caller.ok
            /\ \A i \in 1..Len(Before.playlists) : Before.playlists[i].id # Req.pid) =>
          Resp.status = 404 /\ PlaylistsUntouched
    /\ Req.op \notin {"none", "create", "issue"} =>
          \A j \in 1..Len(RAW_PLAYLISTS) :
              \E i \in 1..Len(Before.playlists) : Before.playlists[i].id = RAW_PLAYLISTS[j].id

C10_Witness ==
    /\ Req.op = "delete"
    /\ Resp.status = 204
    /\ Len(Before.playlists) = 2
    /\ Before.playlists[1].id = Req.pid
    /\ RAW_PLAYLISTS = <<Before.playlists[2]>>

StoredIds(recs) == { recs[i].id : i \in 1..Len(recs) }

\* C11: whenever a step stores a playlist under an id the store did not hold,
\* that id is greater than every playlist id that was ever stored before, so
\* no id is assigned twice, also after its playlist was deleted.
C11_MonotonicIds ==
    [][\A j \in 1..Len(RAW_PLAYLISTS') :
          RAW_PLAYLISTS'[j].id \notin StoredIds(RAW_PLAYLISTS) =>
              \A k \in issued : RAW_PLAYLISTS'[j].id > k]_vars

\* C12: every stored playlist has a name that is not empty after trimming,
\* whatever names create and update were given.
C12_NameNonEmpty ==
    \A i \in 1..Len(RAW_PLAYLISTS) : strip(RAW_PLAYLISTS[i].name) # <<>>

\* C13: once a request has returned, with success or with an error, the
\* persisted users equal the in-memory users and the persisted playlists equal
\* the in-memory playlists.
C13_WriteThrough ==
    usersFile = RAW_USERS /\ playlistsFile = RAW_PLAYLISTS

\* The positions of the playlists owned by uid.
OwnIndices(recs, uid) == { i \in 1..Len(recs) : recs[i].user_id = uid }

\* C14: GET /playlists by an authenticated user answers 200 with exactly the
\* stored playlists whose user_id is the caller's id, in storage order: none
\* of another user, none of the caller's left out.
C14_ListScoping ==
    (Req.op = "list" /\ Caller.ok) =>
        LET uid == Caller.user[1].id
            idx == OwnIndices(Before.playlists, uid)
        IN  /\ Resp.status = 200
            /\ Len(Resp.body) = Cardinality(idx)
            /\ \A k \in 1..Len(Resp.body) : Resp.body[k].user_id = uid
            /\ \A i \in idx :
                  LET k  == Cardinality({ j \in idx : j <= i })
                      pl == Before.playlists[i]
                  IN  /\ Resp.body[k].id = pl.id
                      /\ Resp.body[k].name = pl.name
                      /\ Resp.body[k].created_at = pl.created_at
                      /\ Resp.body[k].updated_at = pl.updated_at

C14_Witness ==
    /\ Req.op = "list"
    /\ Resp.status = 200
    /\ Len(Before.playlists) = 2
    /\ Before.playlists[1].user_id # Caller.user[1].id
    /\ Before.playlists[2].user_id = Caller.user[1].id
    /\ Len(Resp.body) = 1
    /\ Resp.body[1].id = Before.playlists[2].id

\* The positions of the track ids the catalog knows.
KnownIndices(track_ids) == { i \in 1..Len(track_ids) : track_ids[i] \in CatalogIds }

\* out is the catalog's view of track_ids: one entry per known id, in order,
\* repeated ids repeated, unknown ids left out.
Enriches(out, track_ids) ==
    LET known == KnownIndices(track_ids)
    IN  /\ Len(out) = Cardinality(known)
        /\ \A i \in known :
              LET k == Cardinality({ j \in known : j <= i })
              IN  /\ out[k].id = track_ids[i]
                  /\ out[k].title = <<"T", Digits[track_ids[i] + 1]>>
                  /\ out[k].preview =
                        <<"http://host", "/audio/", Digits[track_ids[i] + 1], ".mp3">>

\* C15: a read of a playlist answers 200 with its stored track ids resolved,
\* in order and with repeats kept, to the catalog tracks of those ids; ids the
\* catalog lacks are left out without an error; the stored playlist is as it
\* was before the read.
C15_ReadEnrichment ==
    (Req.op \in {"get", "list"} /\ Caller.ok
        /\ \E i \in 1..Len(Before.playlists) :
              /\ Before.playlists[i].user_id = Caller.user[1].id
              /\ Req.op = "get" => Before.playlists[i].id = Req.pid) =>
        /\ Resp.status = 200
        /\ Resp.body # <<>>
        /\ \A k \in 1..Len(Resp.body) :
              \E i \in 1..Len(Before.playlists) :
                  /\ Before.playlists[i].id = Resp.body[k].id
                  /\ Enriches(Resp.body[k].tracks, Before.playlists[i].tracks)
        /\ PlaylistsUntouched

C15_Witness ==
    /\ Req.op = "get"
    /\ Resp.status = 200
    /\ Before.playlists[1].tracks = <<1, 9, 1>>
    /\ Len(Resp.body[1].tracks) = 2
    /\ Resp.body[1].tracks[1] = Resp.body[1].tracks[2]
    /\ RAW_PLAYLISTS[1].tracks = <<1, 9, 1>>

\* The request's pid names a stored playlist.
C16_Exists == \E i \in 1..Len(Before.playlists) : Before.playlists[i].id = Req.pid

\* The request's pid names a stored playlist of the user the token names.
C16_Owned ==
    \E i \in 1..Len(Before.playlists) :
        /\ Before.playlists[i].id = Req.pid
        /\ str(Before.playlists[i].user_id) = Req.tok[1].sub[1]

\* C16: on GET, PUT and DELETE /playlists/{id} a request without a good token
\* gets 401 whether or not the id is stored; with a good token an id that is
\* not stored gets 404 whoever calls; 403 is answered exactly when the id is
\* stored and the caller is not its owner, also for a PUT with unknown track
\* ids; 400 is answered only to the owner.
C16_CheckOrder ==
    Req.op \in {"get", "update", "delete"} =>
        /\ ~C7_GoodToken => Resp.status = 401
        /\ (C7_GoodToken /\ ~C16_Exists) => Resp.status = 404
        /\ (C7_GoodToken /\ C16_Exists /\ ~C16_Owned) => Resp.status = 403
        /\ Resp.status = 403 => (C7_GoodToken /\ C16_Exists /\ ~C16_Owned)
        /\ Resp.status = 400 => (C7_GoodToken /\ C16_Owned /\ Req.op = "update")
        /\ (C7_GoodToken /\ C16_Owned) => Resp.status \in {200, 204, 400}

UniquePositiveIds(recs) ==
    /\ \A i \in 1..Len(recs) : recs[i].id > 0
    /\ \A i, j \in 1..Len(recs) : i # j => recs[i].id # recs[j].id

\* new is one more than the greatest of ids, and 1 when there are none.
OneAboveMax(new, ids) ==
    /\ \A k \in ids : k < new
    /\ IF ids = {} THEN new = 1 ELSE new - 1 \in ids

\* C17: a successful signup stores the new user under (greatest stored user
\* id, or 0) + 1 and a successful create stores the new playlist under
\* (greatest stored playlist id, or 0) + 1; with requests handled one at a
\* time, in every state all stored user ids are positive and pairwise
\* different, and so are all stored playlist ids.
C17_IdAssignment ==
    /\ UniquePositiveIds(RAW_USERS)
    /\ UniquePositiveIds(RAW_PLAYLISTS)
    /\ (Req.op = "signup" /\ Resp.status = 200) =>
          /\ OneAboveMax(Resp.body[1].user.id, StoredIds(Before.users))
          /\ RAW_USERS[Len(RAW_USERS)].id = Resp.body[1].user.id
    /\ (Req.op = "create" /\ Resp.status = 201) =>
          /\ OneAboveMax(Resp.body[1].id, StoredIds(Before.playlists))
          /\ RAW_PLAYLISTS[Len(RAW_PLAYLISTS)].id = Resp.body[1].id

C17_Witness ==
    /\ Req.op = "signup"
    /\ Resp.status = 200
    /\ StoredIds(Before.users) = {2}
    /\ Resp.body[1].user.id = 3
    /\ Len(RAW_PLAYLISTS) = 2

\* Both requests in flight have returned.
C18_AllDone == \A t \in Threads : pending[t].pc = "done"

C18_Stored(t) ==
    IF pending[t].req.op = "signup"
    THEN \E i \in 1..Len(RAW_USERS) : RAW_USERS[i] = pending[t].new[1]
    ELSE \E i \in 1..Len(RAW_PLAYLISTS) : RAW_PLAYLISTS[i] = pending[t].new[1]

\* C18: when two interleaved signups or creates have both returned, every
\* request that succeeded has its record stored, stored ids are pairwise
\* different, two signups with the same email (ignoring case) have not both
\* succeeded, and the persisted documents equal the in-memory lists.
C18_AtMostOneWriter ==
    C18_AllDone =>
        /\ \A t \in Threads : pending[t].status \in {200, 201} => C18_Stored(t)
        /\ UniquePositiveIds(RAW_USERS)
        /\ UniquePositiveIds(RAW_PLAYLISTS)
        /\ \A t, u \in Threads :
              (/\ t # u
               /\ pending[t].req.op = "signup"
               /\ pending[u].req.op = "signup"
               /\ CaseVariant(pending[t].req.email, pending[u].req.email)) =>
                  ~(pending[t].status = 200 /\ pending[u].status = 200)
        /\ usersFile = RAW_USERS
        /\ playlistsFile = RAW_PLAYLISTS

\* k has no capital letter.
LowerCased(k) == \A i \in 1..Len(k) : \A p \in CasePairs : k[i] # p[2]

\* C19: no two stored users have emails that are equal ignoring case; every
\* stored user is the value of the email index under its email in small
\* letters; the index has no value that is not a stored user; and a request
\* never removes or changes a user that was stored when it arrived.
C19_EmailIndex ==
    /\ \A i, j \in 1..Len(RAW_USERS) :
          i # j => ~CaseVariant(RAW_USERS[i].email, RAW_USERS[j].email)
    /\ \A i \in 1..Len(RAW_USERS) :
          \E k \in DOMAIN USERS_BY_EMAIL :
              /\ CaseVariant(k, RAW_USERS[i].email)
              /\ LowerCased(k)
              /\ USERS_BY_EMAIL[k] = RAW_USERS[i]
    /\ \A k \in DOMAIN USERS_BY_EMAIL :
          \E i \in 1..Len(RAW_USERS) : RAW_USERS[i] = USERS_BY_EMAIL[k]
    /\ Req.op # "none" =>
          /\ Len(RAW_USERS) >= Len(Before.users)
          /\ \A i \in 1..Len(Before.users) : RAW_USERS[i] = Before.users[i]

C19_Witness ==
    /\ Req.op = "signup"
    /\ Req.email = Some(<<"A", "@", "X">>)
    /\ Resp.status = 200
    /\ Len(Before.users) = 1
    /\ Len(RAW_USERS) = 2
    /\ DOMAIN USERS_BY_EMAIL = { <<"a", "@", "x">>, <<"b", "@", "x">> }

\* C20: every track id of every stored playlist is a catalog id, so a read
\* presents as many tracks as the playlist stores, and every stored
\* playlist's user_id is the id of a stored user.
C20_StoredIntegrity ==
    /\ \A i \in 1..Len(RAW_PLAYLISTS) :
          /\ \A k \in 1..Len(RAW_PLAYLISTS[i].tracks) :
                RAW_PLAYLISTS[i].tracks[k] \in CatalogIds
          /\ \E u \in 1..Len(RAW_USERS) : RAW_USERS[u].id = RAW_PLAYLISTS[i].user_id
    /\ (Req.op \in {"get", "list"} /\ Resp.status = 200) =>
          \A k \in 1..Len(Resp.body) :
              \E i \in 1..Len(RAW_PLAYLISTS) :
                  /\ RAW_PLAYLISTS[i].id = Resp.body[k].id
                  /\ Len(Resp.body[k].tracks) = Len(RAW_PLAYLISTS[i].tracks)
                  /\ \A n \in 1..Len(Resp.body[k].tracks) :
                        Resp.body[k].tracks[n].id = RAW_PLAYLISTS[i].tracks[n]

C20_Witness ==
    /\ Req.op = "get"
    /\ Resp.status = 200
    /\ Len(Resp.body[1].tracks) = 2
    /\ Len(RAW_PLAYLISTS) = 2
    /\ \E i \in 1..2 :
          /\ RAW_PLAYLISTS[i].id = Req.pid
          /\ RAW_PLAYLISTS[i].tracks = <<2, 1>>
          /\ RAW_PLAYLISTS[i].name = <<"M">>
          /\ playlistsFile[i].name = <<>>

====
